---- MODULE Spec2Model ----
(***************************************************************************)
(* The in-memory CRUD service of main.py: four dictionaries (persons,      *)
(* family_histories, account_balances, addresses) and, for each, the       *)
(* handlers create / list / get-by-id / patch.  The pydantic models of     *)
(* models/family_history.py and models/account_balance.py are modelled by  *)
(* what they do to a request body: which fields they keep, which defaults  *)
(* they fill in, which values they reject.  models/person.py and           *)
(* models/address.py are not among the source files; their field lists     *)
(* follow the query parameters of main.py and the specification.           *)
(***************************************************************************)
EXTENDS Integers, FiniteSets, Sequences, TLC

(* ------------------------------ bounds -------------------------------- *)

\* Records held by the four stores together.
MaxRecords == 2

(* ------------------------------ values -------------------------------- *)

\* Python's None (JSON null).
None == "None"
\* UUID values: those a client may send and those uuid4 may draw.
UUIDs == {"u1", "u2"}
\* Optional[str] samples.
Strs == {"IBS"}
\* float samples.
Floats == {"42.5", "120.21"}
\* datetime.date samples, written as Python shows them.
Dates == {"date(2000, 1, 15)"}
\* Readings of datetime.utcnow: an earlier and a later one.
Times == {0, 1}
\* Text a client may send as a query parameter.
QueryStrs == {"IBS", "diabetes"}

FH == "family_histories"
AB == "account_balances"
AD == "addresses"
PE == "persons"
Resources == {FH, AB, AD, PE}

\* HTTP status codes of the handlers.
Created == 201
Ok == 200
Conflict == 400
NotFoundStatus == 404
\* An exception that is not an HTTPException leaves the handler: FastAPI
\* answers 500.
ServerError == 500

(* ------------------------------ models -------------------------------- *)

\* The payload fields of each Base model (every field but id).
Fields(r) ==
  CASE r = FH -> {"father", "mother", "sister", "brother"}
    [] r = AB -> {"account_balance"}
    [] r = AD -> {"street", "city", "state", "postal_code", "country"}
    [] r = PE -> {"uni", "first_name", "last_name", "email", "phone",
                  "birth_date", "addresses"}

\* PersonCreate carries no id: the identifier is PersonRead's, generated
\* when the record is built.
PersonCreateFields == Fields(PE)

\* AddressUpdate and PersonUpdate carry the payload fields and no id: the
\* identifier is immutable.
AddressUpdateFields == Fields(AD)
PersonUpdateFields == Fields(PE)

\* The fields of the Create model: the Base model's, id included
\* (create_address reads address.id).
CreateFields(r) == IF r = PE THEN PersonCreateFields ELSE {"id"} \cup Fields(r)

\* The fields of the Update model.  FamilyHistoryUpdate and
\* AccountBalanceUpdate extend the Base model and so inherit id.
UpdateFields(r) ==
  CASE r \in {FH, AB} -> {"id"} \cup Fields(r)
    [] r = AD -> AddressUpdateFields
    [] r = PE -> PersonUpdateFields

\* The fields of the Read model: the Base model's and the two timestamps
\* (PersonRead and AddressRead have the same shape).
ReadFields(r) == {"id"} \cup Fields(r) \cup {"created_at", "updated_at"}

\* The embedded addresses a person payload may carry.
Addr(u, city, country) ==
  [id |-> u, street |-> None, city |-> city, state |-> None,
   postal_code |-> None, country |-> country]
AddressLists ==
  { << >>,
    << Addr("u1", "diabetes", None), Addr("u2", "IBS", "IBS") >> }

\* The fields the requests of this model give values to; the others keep
\* their defaults.
Sampled(r) ==
  CASE r = FH -> {"father"}
    [] r = AB -> {"account_balance"}
    [] r = AD -> {"city"}
    [] r = PE -> {"birth_date", "addresses"}

\* Person.birth_date is an optional date.
BirthDates == Dates \cup {None}

\* Person.addresses defaults to the empty list.
NoAddresses == <<>>

\* The values a request may give field f of resource r.  A float field of a
\* Create model rejects null at request parsing; the Optional fields, and
\* AccountBalanceUpdate.account_balance (Optional[float]), accept it.
BodyVals(kind, r, f) ==
  CASE f = "id" -> UUIDs
    [] f = "account_balance" ->
         IF kind = "update" THEN Floats \cup {None} ELSE Floats
    [] f = "birth_date" -> BirthDates
    [] f = "addresses" -> AddressLists
    [] OTHER -> Strs \cup {None}

\* The default of a field that a body leaves out: Field(None, ...).
Default(r, f) == IF f = "addresses" THEN NoAddresses ELSE None

\* The JSON objects that give exactly the fields S.
RECURSIVE BodiesOver(_, _, _)
BodiesOver(kind, r, S) ==
  IF S = {} THEN { <<>> }
  ELSE LET f == CHOOSE g \in S : TRUE IN
       { (f :> v) @@ b :
           v \in BodyVals(kind, r, f), b \in BodiesOver(kind, r, S \ {f}) }

\* Request bodies: each supplies some of the sampled fields, with or without
\* an id.
CreateBodies(r) ==
  UNION { BodiesOver("create", r, S) :
          S \in SUBSET ({"id"} \cup Sampled(r)) }

UpdateBodies(r) ==
  UNION { BodiesOver("update", r, S) :
          S \in SUBSET ({"id"} \cup Sampled(r)) }

(* ------------------------------- state -------------------------------- *)

VARIABLES
  persons,           \* Dict[UUID, PersonRead]
  family_histories,  \* Dict[UUID, FamilyHistoryRead]
  account_balances,  \* Dict[UUID, AccountBalanceRead]
  addresses,         \* Dict[UUID, AddressRead]
  now,               \* the reading of datetime.utcnow
  req,               \* the request last served
  resp,              \* its response
  inflight           \* the patch requests being served, by worker thread

stores == <<persons, family_histories, account_balances, addresses>>
vars == <<persons, family_histories, account_balances, addresses, now, req,
          resp, inflight>>

Store(r) ==
  CASE r = FH -> family_histories
    [] r = AB -> account_balances
    [] r = AD -> addresses
    [] r = PE -> persons

\* The other three stores' records, counted.
Total ==
  Cardinality(DOMAIN persons) + Cardinality(DOMAIN family_histories)
    + Cardinality(DOMAIN account_balances) + Cardinality(DOMAIN addresses)

\* persons[k] = v and the like: the dictionary with key k bound to v.
Put(m, k, v) == (k :> v) @@ m

\* The assignment to the dictionary of resource r; the other three are left
\* alone.
SetStore(r, m) ==
  /\ family_histories' = IF r = FH THEN m ELSE family_histories
  /\ account_balances' = IF r = AB THEN m ELSE account_balances
  /\ addresses' = IF r = AD THEN m ELSE addresses
  /\ persons' = IF r = PE THEN m ELSE persons

NoBody == <<>>

(* ------------------------------ pydantic ------------------------------ *)

\* A generator that returns the same identifier at every call, as
\* Field(default=uuid4()) would.
uuid4Once(r) == {"u1"}

\* default_factory=uuid4: a random 122-bit value, which does not repeat an
\* identifier the store already holds.
uuid4(r) ==
  UUIDs \ (DOMAIN Store(r) \cup { Store(r)[k]["id"] : k \in DOMAIN Store(r) })

\* XxxCreate(**body).model_dump(): the Create model's fields, each from the
\* body or else its default; u is what default_factory=uuid4 returned.
CreateDump(r, body, u) ==
  [f \in CreateFields(r) |->
     IF f \in DOMAIN body THEN body[f]
     ELSE IF f = "id" THEN u ELSE Default(r, f)]

\* The dumps a body can produce, one for each identifier uuid4 may draw.
CreateDumps(r, body) ==
  { CreateDump(r, body, u) :
      u \in IF "id" \in DOMAIN body THEN {body["id"]} ELSE uuid4(r) }

\* model_dump() without exclude_unset: the fields the body left out are
\* dumped with their defaults.
UpdateDumpAll(r, body) ==
  [f \in (DOMAIN body \cap UpdateFields(r)) \cup Fields(r) |->
     IF f \in DOMAIN body THEN body[f] ELSE Default(r, f)]

\* XxxUpdate(**body).model_dump(exclude_unset=True): the fields of the Update
\* model that the body set, and nothing else.
UpdateDump(r, body) ==
  [f \in DOMAIN body \cap UpdateFields(r) |-> body[f]]

\* Validation of the Read model: AccountBalanceBase.account_balance is a
\* float, and None is not one.  Every other field is Optional.
ReadValid(r, d) == r = AB => d["account_balance"] # None

\* XxxRead(**d): the fields of d, and for a field d lacks the default
\* factory's value (u from uuid4, the clock for the two timestamps).
ReadModel(r, d, u) ==
  [f \in ReadFields(r) |->
     IF f \in DOMAIN d THEN d[f]
     ELSE IF f = "id" THEN u ELSE now]

ReadModels(r, d) ==
  { ReadModel(r, d, u) :
      u \in IF "id" \in DOMAIN d THEN {d["id"]} ELSE uuid4(r) }

(* ------------------------------ handlers ------------------------------ *)

\* No create handler looks the identifier up.
NoDuplicateCheck(r) == FALSE

\* Whether the create handler looks the identifier up before it stores.
HasDuplicateCheck(r) == r \in {FH, AD}

\* create_xxx, given the parsed payload's dump and the Read model built from
\* it: the response and the dictionary afterwards.
CreateResult(r, dump, rec) ==
  IF HasDuplicateCheck(r) /\ dump["id"] \in DOMAIN Store(r)
  THEN [status |-> Conflict, body |-> NoBody, store |-> Store(r)]
  ELSE IF ~ReadValid(r, dump)
  THEN [status |-> ServerError, body |-> NoBody, store |-> Store(r)]
  ELSE [status |-> Created, body |-> rec,
        store |-> Put(Store(r), rec["id"], rec)]

\* No request is being served.
NoRequest == [op |-> "none", res |-> None, id |-> None, body |-> NoBody]
NoResponse == [status |-> 0, body |-> NoBody]
Idle == req = NoRequest

\* The identifier a create body carries, or None.
SuppliedId(body) == IF "id" \in DOMAIN body THEN body["id"] ELSE None

Create(r) ==
  /\ Idle
  /\ \E body \in CreateBodies(r) :
    \E dump \in CreateDumps(r, body) :
      \E rec \in ReadModels(r, dump) :
        LET res == CreateResult(r, dump, rec) IN
        /\ Total - Cardinality(DOMAIN Store(r))
             + Cardinality(DOMAIN res.store) <= MaxRecords
        /\ SetStore(r, res.store)
        /\ req' = [op |-> "create", res |-> r, id |-> SuppliedId(body),
                   body |-> NoBody]
        /\ resp' = [status |-> res.status, body |-> res.body]
        /\ UNCHANGED <<now, inflight>>

create_family_history == Create(FH)
create_account_balance == Create(AB)
create_address == Create(AD)
create_person == Create(PE)

\* get_xxx: the stored record, or 404.
GetResult(r, id) ==
  IF id \notin DOMAIN Store(r)
  THEN [status |-> NotFoundStatus, body |-> NoBody]
  ELSE [status |-> Ok, body |-> Store(r)[id]]

Get(r) ==
  /\ Idle
  /\ \E id \in UUIDs :
    /\ req' = [op |-> "get", res |-> r, id |-> id, body |-> NoBody]
    /\ resp' = GetResult(r, id)
    /\ UNCHANGED <<stores, now, inflight>>

get_family_history == Get(FH)
get_account_balances == Get(AB)
get_address == Get(AD)
get_person == Get(PE)

\* A merge that also stamps updated_at with the clock.
MergedTouch(stored, dump) == ("updated_at" :> now) @@ dump @@ stored

\* stored.update(...): the dump's fields over the stored record's.
Merged(stored, dump) == dump @@ stored

\* A patch that creates the record it does not find.
UpdateUpsert(r, id, body) ==
  LET rec == ReadModel(r, UpdateDumpAll(r, body), id) IN
  [status |-> Ok, body |-> rec, store |-> Put(Store(r), id, rec)]

\* update_xxx from the raise on: the identifier is not a key.
UpdateNotFound(r, id, body) ==
  [status |-> NotFoundStatus, body |-> NoBody, store |-> Store(r)]

\* update_xxx from the merge on, given the dump of the stored record that the
\* handler read: build the Read model from the merged dictionary and store it
\* under the path's identifier.
WriteBack(r, id, stored, body) ==
  LET merged == Merged(stored, UpdateDump(r, body)) IN
  IF ~ReadValid(r, merged)
  THEN [status |-> ServerError, body |-> NoBody, store |-> Store(r)]
  ELSE LET rec == ReadModel(r, merged, id) IN
       [status |-> Ok, body |-> rec, store |-> Put(Store(r), id, rec)]

\* update_xxx, served without interruption.
UpdateResult(r, id, body) ==
  IF id \notin DOMAIN Store(r)
  THEN UpdateNotFound(r, id, body)
  ELSE WriteBack(r, id, Store(r)[id], body)

\* The request log keeps the payload of a patch that was served; a patch
\* that was refused is logged by its path alone.
Update(r) ==
  /\ Idle
  /\ \E id \in UUIDs, body \in UpdateBodies(r) :
    LET res == UpdateResult(r, id, body) IN
    /\ SetStore(r, res.store)
    /\ req' = [op |-> "update", res |-> r, id |-> id,
               body |-> IF res.status = Ok THEN body ELSE NoBody]
    /\ resp' = [status |-> res.status, body |-> res.body]
    /\ UNCHANGED <<now, inflight>>

update_family_history == Update(FH)
update_account_balance == Update(AB)
update_address == Update(AD)
update_person == Update(PE)

\* The query parameters of each list handler, in the order the handler
\* applies them.
FilterOrder(r) ==
  CASE r = FH -> <<"father", "mother", "sister", "brother">>
    [] r = AB -> <<"account_balance">>
    [] r = AD -> <<"street", "city", "state", "postal_code", "country">>
    [] r = PE -> <<"uni", "first_name", "last_name", "email", "phone",
                   "birth_date", "city", "country">>

\* The query parameters this model gives values to.
SampledFilters(r) ==
  CASE r = FH -> {"father"}
    [] r = AB -> {"account_balance"}
    [] r = AD -> {"city"}
    [] r = PE -> {"birth_date", "city"}

\* The text of a query parameter.
QueryVals(r, f) ==
  CASE f = "account_balance" -> {"42.5", "42.50"}
    [] f = "birth_date" -> {"2000-01-15", "None"}
    [] OTHER -> QueryStrs

RECURSIVE QueriesOver(_, _)
QueriesOver(r, S) ==
  IF S = {} THEN { <<>> }
  ELSE LET f == CHOOSE g \in S : TRUE IN
       { (f :> v) @@ q : v \in QueryVals(r, f), q \in QueriesOver(r, S \ {f}) }

Queries(r) ==
  UNION { QueriesOver(r, S) : S \in SUBSET SampledFilters(r) }

\* float(text) of a query parameter declared float.
ParseFloat(text) == IF text = "42.50" THEN "42.5" ELSE text

\* str(d) of a datetime.date, or of None.
Str(d) == IF d = "date(2000, 1, 15)" THEN "2000-01-15" ELSE d

\* The condition of one list comprehension: p.field == value, for
\* birth_date str(p.birth_date) == value, for a person's city and country
\* any(addr.field == value for addr in p.addresses).
Matches(r, f, rec, v) ==
  CASE r = PE /\ f \in {"city", "country"} ->
         \E i \in 1..Len(rec["addresses"]) : rec["addresses"][i][f] = v
    [] r = PE /\ f = "birth_date" -> Str(rec[f]) = v
    [] r = AB -> rec[f] = ParseFloat(v)
    [] OTHER -> rec[f] = v

\* if f is not None: results = [p for p in results if ...]
Narrow(r, f, q, results) ==
  IF f \notin DOMAIN q THEN results
  ELSE { k \in results : Matches(r, f, Store(r)[k], q[f]) }

\* The keys of the records left after the filters from the i-th on.
RECURSIVE NarrowFrom(_, _, _, _)
NarrowFrom(r, i, q, results) ==
  IF i > Len(FilterOrder(r)) THEN results
  ELSE NarrowFrom(r, i + 1, q, Narrow(r, FilterOrder(r)[i], q, results))

\* list handler: results = list(store.values()), narrowed by each filter in
\* turn.  The result is given by key, so that two equal records both count.
ListResult(r, q) ==
  LET keys == NarrowFrom(r, 1, q, DOMAIN Store(r)) IN
  [status |-> Ok, body |-> [k \in keys |-> Store(r)[k]]]

List(r) ==
  /\ Idle
  /\ \E q \in Queries(r) :
    /\ req' = [op |-> "list", res |-> r, id |-> None, body |-> q]
    /\ resp' = ListResult(r, q)
    /\ UNCHANGED <<stores, now, inflight>>

get_family_histories == List(FH)
get_account_balance == List(AB)
list_addresses == List(AD)
list_persons == List(PE)

(* ----------------------- patches served in threads -------------------- *)

\* The handlers are plain def functions, which FastAPI runs in a thread
\* pool: two requests may be inside update_xxx at once, and the interpreter
\* may switch threads between the statement that reads the stored record
\* and the statement that stores the merged one.  req and resp show the
\* request that was served in one step; a thread's step waits for Respond to
\* clear them, which orders no two accesses to the stores.
Threads == {"t1", "t2"}

\* The bodies of the patches served in threads: each supplies one payload
\* field; for a family history the field is father or mother.
ThreadBodies(r) ==
  UNION { BodiesOver("update", r, {f}) :
          f \in IF r = FH THEN {"father", "mother"} ELSE Sampled(r) }

Waiting ==
  [pc |-> "wait", res |-> None, id |-> None, body |-> NoBody,
   stored |-> NoBody, status |-> 0]

\* update_xxx up to stored = store[id].model_dump(): the lookup, and the
\* dump of the stored record kept in the thread's local variable.
UpdateRead(t) ==
  /\ Idle
  /\ inflight[t].pc = "wait"
  /\ \E r \in Resources, id \in UUIDs : \E body \in ThreadBodies(r) :
       IF id \notin DOMAIN Store(r)
       THEN inflight' = [inflight EXCEPT ![t] =
              [pc |-> "done", res |-> r, id |-> id, body |-> NoBody,
               stored |-> NoBody, status |-> NotFoundStatus]]
       ELSE inflight' = [inflight EXCEPT ![t] =
              [pc |-> "merge", res |-> r, id |-> id, body |-> body,
               stored |-> Store(r)[id], status |-> 0]]
  /\ UNCHANGED <<stores, now, req, resp>>

\* update_xxx from stored.update(...) on: merge into the local dump, build
\* the Read model, store it and return it.
UpdateWrite(t) ==
  /\ Idle
  /\ inflight[t].pc = "merge"
  /\ LET me == inflight[t]
         res == WriteBack(me.res, me.id, me.stored, me.body) IN
     /\ SetStore(me.res, res.store)
     /\ inflight' = [inflight EXCEPT ![t].pc = "done",
                                     ![t].stored = NoBody,
                                     ![t].status = res.status]
  /\ UNCHANGED <<now, req, resp>>

\* The response has been sent; the server waits for the next request.
Respond ==
  /\ ~Idle
  /\ req' = NoRequest
  /\ resp' = NoResponse
  /\ UNCHANGED <<stores, now, inflight>>

\* The clock moves on between two requests.
Tick ==
  /\ Idle
  /\ now + 1 \in Times
  /\ now' = now + 1
  /\ UNCHANGED <<stores, req, resp, inflight>>

Init ==
  /\ persons = <<>>
  /\ family_histories = <<>>
  /\ account_balances = <<>>
  /\ addresses = <<>>
  /\ now = 0
  /\ req = NoRequest
  /\ resp = NoResponse
  /\ inflight = [t \in Threads |-> Waiting]

Next ==
  \/ create_family_history
  \/ get_family_histories
  \/ get_family_history
  \/ update_family_history
  \/ create_account_balance
  \/ get_account_balance
  \/ get_account_balances
  \/ update_account_balance
  \/ create_address
  \/ list_addresses
  \/ get_address
  \/ update_address
  \/ create_person
  \/ list_persons
  \/ get_person
  \/ update_person
  \/ Respond
  \/ Tick

Spec == Init /\ [][Next]_vars

\* The scenario of two concurrent patches: records are created by requests
\* served one at a time, then each of the two threads serves one patch.
NoPatchYet == \A t \in Threads : inflight[t].pc = "wait"

NextThreads ==
  \/ NoPatchYet /\ create_family_history
  \/ NoPatchYet /\ create_account_balance
  \/ NoPatchYet /\ create_address
  \/ NoPatchYet /\ create_person
  \/ Respond
  \/ \E t \in Threads : UpdateRead(t)
  \/ \E t \in Threads : UpdateWrite(t)

SpecThreads == Init /\ [][NextThreads]_vars

(* ------------------------------- claims ------------------------------- *)

\* C1: in the FamilyHistory and Address stores, a create whose payload
\* carries an identifier that is already a key answers 400 (Conflict) and
\* leaves the stores as they were: same keys, same record under that key.
C1_DuplicateCreateIsConflict ==
  [][\A r \in {FH, AD} :
       (Idle /\ req'.op = "create" /\ req'.res = r
          /\ req'.id \in DOMAIN Store(r))
       => (resp'.status = Conflict /\ stores' = stores)]_vars

\* A create of a family history was refused although the store holds a
\* record under the identifier it carried.
C1_Witness ==
  /\ req.op = "create" /\ req.res = FH
  /\ resp.status = Conflict
  /\ req.id \in DOMAIN family_histories

\* C2: in each of the four stores, every successful create grows the store
\* by exactly one entry and leaves every record stored before it present and
\* unchanged, whether or not the payload carries an identifier.
C2_CreateGrowsByOne ==
  [][\A r \in Resources :
       (Idle /\ req'.op = "create" /\ req'.res = r
          /\ resp'.status = Created)
       => /\ Cardinality(DOMAIN Store(r)') = Cardinality(DOMAIN Store(r)) + 1
          /\ \A k \in DOMAIN Store(r) :
               k \in DOMAIN Store(r)' /\ Store(r)'[k] = Store(r)[k]]_vars

\* C3: every store maps each key to a record whose id field is that key; no
\* patch changes a record's id or makes two records carry the same id.
C3_KeyIsId ==
  \A r \in Resources :
    \A k \in DOMAIN Store(r) : Store(r)[k]["id"] = k

\* C4: after a successful create, get-by-id with the returned record's
\* identifier answers 200 with a record equal to the one create returned;
\* and when the payload carried no identifier, the assigned one was not a
\* key of the store before the call.
C4_CreatedIsRetrievable ==
  [][\A r \in Resources, u \in UUIDs :
       (Idle /\ req'.op = "create" /\ req'.res = r
          /\ resp'.status = Created /\ resp'.body["id"] = u)
       => /\ GetResult(r, u)' = [status |-> Ok, body |-> resp'.body]
          /\ req'.id = None => u \notin DOMAIN Store(r)]_vars

\* A create without an identifier succeeded in a store that already held a
\* record.
C4_Witness ==
  /\ req.op = "create" /\ resp.status = Created /\ req.id = None
  /\ Cardinality(DOMAIN Store(req.res)) = 2

\* C5: a get-by-id or a patch addressed to an identifier that is not a key
\* of the store answers 404 (NotFound) and leaves all four stores unchanged.
C5_UnknownIdIsNotFound ==
  [][\A r \in Resources, u \in UUIDs :
       (Idle /\ req'.op \in {"get", "update"} /\ req'.res = r
          /\ req'.id = u /\ u \notin DOMAIN Store(r))
       => (resp'.status = NotFoundStatus /\ stores' = stores)]_vars

\* A patch was refused with 404 while its store held another record.
C5_Witness ==
  /\ req.op = "update" /\ resp.status = NotFoundStatus
  /\ Store(req.res) # <<>>

\* C6: a successful patch changes only the fields present in its body (a
\* null that is sent overwrites with null) and leaves every other field as
\* it was, so an empty body changes nothing; the record returned is the
\* record stored, which get-by-id then returns; no other record changes.
C6_PatchChangesOnlySupplied ==
  [][\A r \in Resources, u \in UUIDs :
       (Idle /\ req'.op = "update" /\ req'.res = r /\ req'.id = u
          /\ resp'.status = Ok)
       => /\ \A f \in ReadFields(r) \ DOMAIN req'.body :
               Store(r)'[u][f] = Store(r)[u][f]
          /\ \A f \in Fields(r) \cap DOMAIN req'.body :
               Store(r)'[u][f] = req'.body[f]
          /\ resp'.body = Store(r)'[u]
          /\ GetResult(r, u)' = [status |-> Ok, body |-> resp'.body]
          /\ \A k \in DOMAIN Store(r) \ {u} : Store(r)'[k] = Store(r)[k]
          /\ DOMAIN Store(r)' = DOMAIN Store(r)]_vars

\* A patch gave one payload field a value while another payload field, which
\* the body did not name, kept a value that is not its default.
C6_Witness ==
  /\ req.op = "update" /\ resp.status = Ok
  /\ \E f \in Fields(req.res) \cap DOMAIN req.body :
       \E g \in Sampled(req.res) \ DOMAIN req.body :
         resp.body[g] # Default(req.res, g)

\* What C7 means by a record equal to a filter value on the corresponding
\* field: the field holds the value the text denotes (a float for
\* account_balance, a date for birth_date); for a person's city and
\* country, one of the embedded addresses holds it.
FieldEquals(r, f, rec, v) ==
  CASE r = PE /\ f \in {"city", "country"} ->
         \E i \in 1..Len(rec["addresses"]) : rec["addresses"][i][f] = v
    [] r = PE /\ f = "birth_date" -> rec[f] \in Dates /\ Str(rec[f]) = v
    [] r = AB -> rec[f] = ParseFloat(v)
    [] OTHER -> rec[f] = v

\* C7: list returns exactly the stored records that equal every supplied
\* filter value on the corresponding field, each once; no filter, every
\* record.
C7_ListIsConjunctionOfEqualities ==
  req.op = "list" =>
    /\ DOMAIN resp.body =
         { k \in DOMAIN Store(req.res) :
             \A f \in DOMAIN req.body :
               FieldEquals(req.res, f, Store(req.res)[k], req.body[f]) }
    /\ \A k \in DOMAIN resp.body : resp.body[k] = Store(req.res)[k]

C9_NoLostUpdate ==
  \A t \in Threads, o \in Threads :
    (/\ t # o
     /\ inflight[t].pc = "done" /\ inflight[t].status = Ok
     /\ inflight[o].pc = "done" /\ inflight[o].status = Ok
     /\ inflight[t].res = inflight[o].res
     /\ inflight[t].id = inflight[o].id)
    => \A f \in DOMAIN UpdateDump(inflight[t].res, inflight[t].body)
                  \ DOMAIN inflight[o].body :
         Store(inflight[t].res)[inflight[t].id][f] = inflight[t].body[f]

\* C10: every create or patch either succeeds or fails with Conflict or
\* NotFound, and no stored account balance has a null account_balance.
C10_OnlyConflictAndNotFound ==
  /\ resp.status \in {0, Ok, Created, Conflict, NotFoundStatus}
  /\ \A k \in DOMAIN account_balances :
       account_balances[k]["account_balance"] # None

====
